---- MODULE Spec2Model ----
(***************************************************************************)
(* Model of the token authentication and scope authorization layer of the  *)
(* MCP server prototype: validate_token (src/auth.py), TOOL_SCOPE_MAP      *)
(* (src/tools.py) and AuthMiddleware (src/server.py).                      *)
(*                                                                         *)
(* The specifications of the module:                                       *)
(*   SpecV  applies validate_token to every header of Headers at every     *)
(*          evaluation time;                                               *)
(*   Spec   runs list and invoke requests through AuthMiddleware, with     *)
(*          requests suspended at the call to the next stage interleaved;  *)
(*   SpecH  serves the health and readiness probes;                        *)
(*   SpecA  is Spec with an audit sink that can fail;                      *)
(*   SpecL  is Spec with a next stage that returns, under fairness.        *)
(***************************************************************************)
EXTENDS Integers, Sequences, FiniteSets, Bags, TLC

VARIABLES now, vcall, req, last, sink, tool_scope_map, settings

vars == <<now, vcall, req, last, sink, tool_scope_map, settings>>

-----------------------------------------------------------------------------
(* Bounds *)

\* Clock values range over 0..MaxTime; token expiry instants lie in the same range.
MaxTime == 1

\* Longest operation catalog the next stage returns to on_list_tools.
MaxCatalog == 2

\* Number of requests that can be in flight (suspended at the next stage) at once.
MaxReq == 2

-----------------------------------------------------------------------------
(* Process configuration: src/config.py *)

\* The defaults of Settings; settings is the object of the running process,
\* which validate_token reads.
jwt_secret_key == "dev-secret-change-me"

jwt_algorithm == "HS256"

\* A signing key other than the configured one.
WrongKey == "wrong-secret"

-----------------------------------------------------------------------------
(* Scope registry: src/tools.py *)

\* The dict as the module defines it; tool_scope_map is the dict of the running
\* process, which the hooks read.
TOOL_SCOPE_MAP ==
    [n \in {"get_public_info", "get_confidential_info"} |->
        IF n = "get_public_info" THEN "public:read" ELSE "confidential:read"]

\* Python's None for an optional string, and a present value.
None == [some |-> FALSE]

Some(v) == [some |-> TRUE, v |-> v]

\* dict.get(name): the mapped scope, or None when the name has no entry.
ScopeMapGet(name) ==
    IF name \in DOMAIN tool_scope_map THEN Some(tool_scope_map[name]) ELSE None

\* Truthiness of an optional string: None and "" are falsy.
Truthy(opt) == opt.some /\ opt.v # ""

-----------------------------------------------------------------------------
(* Strings as sequences of characters *)

UpperAlpha ==
    <<"A", "B", "C", "D", "E", "F", "G", "H", "I", "J", "K", "L", "M",
      "N", "O", "P", "Q", "R", "S", "T", "U", "V", "W", "X", "Y", "Z">>

LowerAlpha ==
    <<"a", "b", "c", "d", "e", "f", "g", "h", "i", "j", "k", "l", "m",
      "n", "o", "p", "q", "r", "s", "t", "u", "v", "w", "x", "y", "z">>

LowerChar(c) ==
    IF \E i \in DOMAIN UpperAlpha : UpperAlpha[i] = c
    THEN LowerAlpha[CHOOSE i \in DOMAIN UpperAlpha : UpperAlpha[i] = c]
    ELSE c

\* str.lower()
Lower(s) == [i \in DOMAIN s |-> LowerChar(s[i])]

\* str.split(" ", 1): cut at the first space only; one part when there is none.
Split1(s) ==
    IF \E i \in DOMAIN s : s[i] = " "
    THEN LET i == CHOOSE k \in DOMAIN s :
                      s[k] = " " /\ \A j \in 1..(k - 1) : s[j] # " "
         IN  <<SubSeq(s, 1, i - 1), SubSeq(s, i + 1, Len(s))>>
    ELSE <<s>>

-----------------------------------------------------------------------------
(* JSON claim values and signed tokens *)

JStr(s) == [str |-> s]

JInt(n) == [int |-> n]

JList(q) == [list |-> q]

IsStr(x) == DOMAIN x = {"str"}

IsList(x) == DOMAIN x = {"list"}

\* A claim of the payload: absent, or present with a JSON value.
Absent == [has |-> FALSE]

Present(x) == [has |-> TRUE, val |-> x]

\* The MAC over a signing input: equal exactly for equal key, algorithm and input.
Sign(key, alg, payload) == [key |-> key, alg |-> alg, over |-> payload]

\* jwt.encode(payload, secret, algorithm=algorithm)
Encode(payload, key, alg) ==
    [alg |-> alg, payload |-> payload, sig |-> Sign(key, alg, payload)]

\* generate_token(subject, scopes, secret, algorithm, exp_hours) of
\* scripts/generate_token.py, with expiration the instant now + exp_hours: the
\* claims sub, scope and exp, signed.
generate_token(subject, scopes, secret, algorithm, expiration) ==
    Encode([sub |-> Present(JStr(subject)),
            exp |-> Present(JInt(expiration)),
            scope |-> Present(JList([i \in DOMAIN scopes |-> JStr(scopes[i])]))],
           secret, algorithm)

\* A token whose payload was replaced after signing: the signature is the one
\* made over the original payload.
Tamper(tok, payload) == [tok EXCEPT !.payload = payload]

\* The compact serialization of a token is one opaque character of the header
\* text, written "#"; the header record carries the token it stands for.
TokenChar == "#"

NoTok == [alg |-> "", payload |-> [sub |-> Absent, exp |-> Absent, scope |-> Absent],
          sig |-> Sign("", "", [sub |-> Absent, exp |-> Absent, scope |-> Absent])]

-----------------------------------------------------------------------------
(* Results of a call: a returned value or a raised exception *)

Return(v) == [ok |-> TRUE, value |-> v]

\* An exception of class cls whose message is the concatenation of parts msg.
Raise(cls, msg) == [ok |-> FALSE, exc |-> [cls |-> cls, msg |-> msg]]

AuthError(msg) == Raise("AuthError", msg)

TokenInfo(subject, scopes) == [subject |-> subject, scopes |-> scopes]

-----------------------------------------------------------------------------
(* PyJWT's decode, as validate_token calls it: src/auth.py lines 116-123 *)

\* c occurs in the text s.
InText(c, s) == \E i \in DOMAIN s : s[i] = c

\* Faulty variant of VerifySignature: decoding with signature verification switched off.
VerifySignature_Skipped(tok, key) == TRUE

\* The signature check of jwt.decode: the token's signature is the MAC of its
\* payload under the given key and the token's algorithm.
VerifySignature(tok, key) == tok.sig = Sign(key, tok.alg, tok.payload)

\* Faulty variant of jwt_decode: a leeway of two seconds is granted on the expiry.
jwt_decode_Leeway(token, tok, key, algorithm, t) ==
    IF ~InText(TokenChar, token)
    THEN Raise("DecodeError", <<"Not enough segments">>)
    ELSE IF token # <<TokenChar>>
    THEN Raise("InvalidTokenError", <<"(padding or signature error of the altered text)">>)
    ELSE IF tok.alg # algorithm
    THEN Raise("InvalidAlgorithmError", <<"The specified alg value is not allowed">>)
    ELSE IF ~VerifySignature(tok, key)
    THEN Raise("InvalidSignatureError", <<"Signature verification failed">>)
    ELSE IF ~tok.payload.exp.has
    THEN Raise("MissingRequiredClaimError", <<"Token is missing the \"exp\" claim">>)
    ELSE IF ~tok.payload.sub.has
    THEN Raise("MissingRequiredClaimError", <<"Token is missing the \"sub\" claim">>)
    ELSE IF tok.payload.exp.val.int + 2 <= t
    THEN Raise("ExpiredSignatureError", <<"Signature has expired">>)
    ELSE Return(tok.payload)

\* Faulty variant of jwt_decode: no claim is required; exp is compared with the
\* clock only when the token carries it.
jwt_decode_NoRequire(token, tok, key, algorithm, t) ==
    IF ~InText(TokenChar, token)
    THEN Raise("DecodeError", <<"Not enough segments">>)
    ELSE IF token # <<TokenChar>>
    THEN Raise("InvalidTokenError", <<"(padding or signature error of the altered text)">>)
    ELSE IF tok.alg # algorithm
    THEN Raise("InvalidAlgorithmError", <<"The specified alg value is not allowed">>)
    ELSE IF ~VerifySignature(tok, key)
    THEN Raise("InvalidSignatureError", <<"Signature verification failed">>)
    ELSE IF tok.payload.exp.has /\ tok.payload.exp.val.int <= t
    THEN Raise("ExpiredSignatureError", <<"Signature has expired">>)
    ELSE Return(tok.payload)

\* jwt.decode(token, key, algorithms=[algorithm], options={"require": ["exp", "sub"]})
\* evaluated at time t. token is the text after the scheme, tok the structure its
\* compact serialization denotes. Steps, in PyJWT's order: parse the segments,
\* check the algorithm against the allowed list, verify the signature, require
\* the claims exp and sub, compare exp with the clock (expired when exp <= t).
\* A text without a token has no segments. A text that holds a token among other
\* characters has its segments, but not the bytes that were signed: PyJWT raises a
\* padding error or a signature error, depending on the lengths, each an
\* InvalidTokenError.
jwt_decode(token, tok, key, algorithm, t) ==
    IF ~InText(TokenChar, token)
    THEN Raise("DecodeError", <<"Not enough segments">>)
    ELSE IF token # <<TokenChar>>
    THEN Raise("InvalidTokenError", <<"(padding or signature error of the altered text)">>)
    ELSE IF tok.alg # algorithm
    THEN Raise("InvalidAlgorithmError", <<"The specified alg value is not allowed">>)
    ELSE IF ~VerifySignature(tok, key)
    THEN Raise("InvalidSignatureError", <<"Signature verification failed">>)
    ELSE IF ~tok.payload.exp.has
    THEN Raise("MissingRequiredClaimError", <<"Token is missing the \"exp\" claim">>)
    ELSE IF ~tok.payload.sub.has
    THEN Raise("MissingRequiredClaimError", <<"Token is missing the \"sub\" claim">>)
    ELSE IF tok.payload.exp.val.int <= t
    THEN Raise("ExpiredSignatureError", <<"Signature has expired">>)
    ELSE Return(tok.payload)

-----------------------------------------------------------------------------
(* Credential validation: src/auth.py *)

\* The Authorization header value: None, or a string (text, with tok the token
\* that TokenChar stands for in it).
NoHeader == [present |-> FALSE, text |-> <<>>, tok |-> NoTok]

Header(text, tok) == [present |-> TRUE, text |-> text, tok |-> tok]

\* Faulty variant of ExtractClaims: a scope claim of the wrong shape is read as
\* best it can be, a non-list as no grant and a list without its non-string entries.
ExtractClaims_Lenient(payload) ==
    LET subject == IF payload.sub.has THEN payload.sub.val.str ELSE ""
        scopes_claim == IF payload.scope.has THEN payload.scope.val ELSE JList(<<>>)
    IN  IF ~IsList(scopes_claim)
        THEN Return(TokenInfo(subject, <<>>))
        ELSE LET strings == SelectSeq(scopes_claim.list, IsStr)
             IN  Return(TokenInfo(subject, [i \in DOMAIN strings |-> strings[i].str]))

\* Faulty variant of ExtractClaims: a token without the scope claim is given the
\* public grant.
ExtractClaims_DefaultGrant(payload) ==
    LET subject == IF payload.sub.has THEN payload.sub.val.str ELSE ""
        scopes_claim == IF payload.scope.has THEN payload.scope.val
                        ELSE JList(<<JStr("public:read")>>)
    IN  IF ~IsList(scopes_claim)
        THEN AuthError(<<"Invalid scope claim: must be a list">>)
        ELSE IF ~(\A i \in DOMAIN scopes_claim.list : IsStr(scopes_claim.list[i]))
        THEN AuthError(<<"Invalid scope claim: all entries must be strings">>)
        ELSE Return(TokenInfo(subject,
                 [i \in DOMAIN scopes_claim.list |-> scopes_claim.list[i].str]))

\* Faulty variant of ExtractClaims: the scopes are collected by prepending, which
\* reverses their order.
ExtractClaims_ReversedScopes(payload) ==
    LET subject == IF payload.sub.has THEN payload.sub.val.str ELSE ""
        scopes_claim == IF payload.scope.has THEN payload.scope.val ELSE JList(<<>>)
    IN  IF ~IsList(scopes_claim)
        THEN AuthError(<<"Invalid scope claim: must be a list">>)
        ELSE IF ~(\A i \in DOMAIN scopes_claim.list : IsStr(scopes_claim.list[i]))
        THEN AuthError(<<"Invalid scope claim: all entries must be strings">>)
        ELSE Return(TokenInfo(subject,
                 [i \in DOMAIN scopes_claim.list |->
                      scopes_claim.list[Len(scopes_claim.list) + 1 - i].str]))

\* Step 4 of validate_token: sub and scope are read from the decoded payload.
ExtractClaims(payload) ==
    LET subject == IF payload.sub.has THEN payload.sub.val.str ELSE ""
        scopes_claim == IF payload.scope.has THEN payload.scope.val ELSE JList(<<>>)
    IN  IF ~IsList(scopes_claim)
        THEN AuthError(<<"Invalid scope claim: must be a list">>)
        ELSE IF ~(\A i \in DOMAIN scopes_claim.list : IsStr(scopes_claim.list[i]))
        THEN AuthError(<<"Invalid scope claim: all entries must be strings">>)
        ELSE Return(TokenInfo(subject,
                 [i \in DOMAIN scopes_claim.list |-> scopes_claim.list[i].str]))

\* Faulty variant of BearerFormat: any scheme is accepted.
BearerFormat_AnyScheme(parts) == Len(parts) = 2

\* Faulty variant of BearerFormat: the scheme is compared as it is written.
BearerFormat_CaseSensitive(parts) ==
    Len(parts) = 2 /\ parts[1] = <<"B", "e", "a", "r", "e", "r">>

\* Step 2 of validate_token: two parts, the first being "bearer" in any case.
BearerFormat(parts) ==
    Len(parts) = 2 /\ Lower(parts[1]) = <<"b", "e", "a", "r", "e", "r">>

\* Faulty variant of validate_token: the claims of the token are read and typed
\* before the token is verified.
validate_token_TypingFirst(authorization_header, t) ==
    IF ~authorization_header.present \/ authorization_header.text = <<>>
    THEN AuthError(<<"Missing Authorization header">>)
    ELSE LET parts == Split1(authorization_header.text) IN
         IF ~BearerFormat(parts)
         THEN AuthError(<<"Invalid Authorization header format, expected 'Bearer <token>'">>)
         ELSE LET typed == ExtractClaims(authorization_header.tok.payload)
                  decoded == jwt_decode(parts[2], authorization_header.tok,
                                        settings.jwt_secret_key,
                                        settings.jwt_algorithm, t)
              IN  IF ~typed.ok
                  THEN typed
                  ELSE IF decoded.ok
                  THEN typed
                  ELSE IF decoded.exc.cls = "ExpiredSignatureError"
                  THEN AuthError(<<"Token has expired">>)
                  ELSE AuthError(<<"Invalid token: ">> \o decoded.exc.msg)

\* validate_token(authorization_header), evaluated at time t.
validate_token(authorization_header, t) ==
    IF ~authorization_header.present \/ authorization_header.text = <<>>
    THEN AuthError(<<"Missing Authorization header">>)
    ELSE LET parts == Split1(authorization_header.text) IN
         IF ~BearerFormat(parts)
         THEN AuthError(<<"Invalid Authorization header format, expected 'Bearer <token>'">>)
         ELSE LET decoded == jwt_decode(parts[2], authorization_header.tok,
                                        settings.jwt_secret_key,
                                        settings.jwt_algorithm, t) IN
              IF decoded.ok
              THEN ExtractClaims(decoded.value)
              ELSE IF decoded.exc.cls = "ExpiredSignatureError"
              THEN AuthError(<<"Token has expired">>)
              ELSE AuthError(<<"Invalid token: ">> \o decoded.exc.msg)

-----------------------------------------------------------------------------
(* Inputs: claim sets, tokens and header values *)

Subjects == {"alice", "bob"}

\* Lists a scope claim can hold; 123 stands for any non-string entry.
ScopeLists ==
    { <<>>,
      <<JStr("public:read")>>,
      <<JStr("confidential:read")>>,
      <<JStr("public:read"), JStr("confidential:read")>>,
      <<JStr("confidential:read"), JStr("public:read")>>,
      <<JStr("admin:all")>>,
      <<JInt(123)>>,
      <<JStr("public:read"), JInt(123)>> }

ScopeClaims ==
    {Absent, Present(JStr("public:read"))} \cup {Present(JList(q)) : q \in ScopeLists}

\* Expiry instants before, at and after every clock value.
ExpClaims == {Absent} \cup {Present(JInt(e)) : e \in 0..(MaxTime + 1)}

SubClaims == {Absent} \cup {Present(JStr(u)) : u \in Subjects}

Payloads == [sub : SubClaims, exp : ExpClaims, scope : ScopeClaims]

Algorithms == {"HS256", "HS512", "none"}

Keys == {jwt_secret_key, WrongKey}

\* What the configured secret signed and an attacker then rewrites.
SignedPayload ==
    [sub |-> Present(JStr("alice")), exp |-> Present(JInt(1)),
     scope |-> Present(JList(<<JStr("public:read")>>))]

Tokens ==
    {Encode(p, k, a) : p \in Payloads, k \in Keys, a \in Algorithms}
    \cup {Tamper(Encode(SignedPayload, jwt_secret_key, jwt_algorithm), p) : p \in Payloads}

\* Header texts that embed no token.
PlainTexts ==
    { <<>>,
      <<" ">>,
      <<"B", "e", "a", "r", "e", "r">>,
      <<"B", "e", "a", "r", "e", "r", " ">>,
      <<"B", "e", "a", "r", "e", "r", " ", "x">>,
      <<"B", "e", "a", "r", "e", "r", " ", "x", " ", "y">>,
      <<"B", "a", "s", "i", "c">> }

\* Header texts that embed the token at TokenChar.
TokenTexts ==
    { <<"B", "e", "a", "r", "e", "r", " ", TokenChar>>,
      <<"b", "e", "a", "r", "e", "r", " ", TokenChar>>,
      <<"B", "E", "A", "R", "E", "R", " ", TokenChar>>,
      <<"b", "E", "a", "R", "e", "R", " ", TokenChar>>,
      <<"B", "a", "s", "i", "c", " ", TokenChar>>,
      <<TokenChar>>,
      <<"B", "e", "a", "r", "e", "r", TokenChar>>,
      <<"B", "e", "a", "r", "e", "r", "\t", TokenChar>>,
      <<"B", "e", "a", "r", "e", "r", " ", " ", TokenChar>>,
      <<"B", "e", "a", "r", "e", "r", " ", TokenChar, " ", "x">>,
      <<" ", "B", "e", "a", "r", "e", "r", " ", TokenChar>> }

Headers ==
    {NoHeader}
    \cup {Header(x, NoTok) : x \in PlainTexts}
    \cup {Header(x, k) : x \in TokenTexts, k \in Tokens}

-----------------------------------------------------------------------------
(* The validator on its own: every header at every evaluation time *)

NoCall == [pc |-> "ready"]

\* No request has just ended.
NoLast == [pc |-> "none"]

\* One call validate_token(header): the clock is read when the call evaluates.
Validate(h) ==
    /\ vcall.pc = "ready"
    /\ vcall' = [pc |-> "done", header |-> h, at |-> now,
                 result |-> validate_token(h, now)]
    /\ UNCHANGED <<now, req, last, sink, tool_scope_map, settings>>

\* The caller takes the result; the validator keeps nothing of the call.
Forget ==
    /\ vcall.pc = "done"
    /\ vcall' = NoCall
    /\ UNCHANGED <<now, req, last, sink, tool_scope_map, settings>>

\* Time passes.
Tick ==
    /\ last = NoLast
    /\ now < MaxTime
    /\ now' = now + 1
    /\ UNCHANGED <<vcall, req, last, sink, tool_scope_map, settings>>

-----------------------------------------------------------------------------
(* AuthMiddleware: src/server.py *)

\* The ambient transport context of a request: an HTTP request with its
\* Authorization header (None when the header is not sent), or no HTTP request
\* at all (a non-HTTP transport).
NoHttp == [http |-> FALSE, authorization |-> NoHeader]

Http(h) == [http |-> TRUE, authorization |-> h]

\* Faulty variant of _get_auth_header: a request without an HTTP request is taken
\* for a local, trusted caller and given a token of the server's own.
_get_auth_header_TrustLocal(ctx) ==
    IF ctx.http THEN ctx.authorization
    ELSE [present |-> TRUE,
          text |-> <<"B", "e", "a", "r", "e", "r", " ", TokenChar>>,
          tok |-> Encode([sub |-> Present(JStr("local")),
                          exp |-> Present(JInt(MaxTime + 1)),
                          scope |-> Present(JList(<<JStr("public:read")>>))],
                         jwt_secret_key, jwt_algorithm)]

\* get_http_request() raises RuntimeError without an HTTP request; headers.get
\* yields None for a header that was not sent.
_get_auth_header(ctx) == IF ctx.http THEN ctx.authorization ELSE NoHeader

\* x in list
InList(x, list) == \E i \in DOMAIN list : list[i] = x

\* Faulty variant of logger_log: a failure of the sink is raised to the caller.
logger_log_Raising(records) ==
    IF sink
    THEN [ok |-> TRUE, written |-> records]
    ELSE [ok |-> FALSE, written |-> <<>>,
          error |-> Raise("OSError", <<"audit sink unavailable">>)]

\* logger.info / logger.warning on the "mcp-server" logger (lines 94-101): the
\* records go to the stream handler, which writes them when the sink works and
\* otherwise drops them (logging.Handler.handleError); the call returns either
\* way.
logger_log(records) ==
    [ok |-> TRUE, written |-> IF sink THEN records ELSE <<>>,
     error |-> Raise("OSError", <<"audit sink unavailable">>)]

\* A step that logs and then returns or raises: what was written of its records,
\* and its result, unless the logging call itself raised.
Logged(step) ==
    LET emitted == logger_log(step.log) IN
    [result |-> IF emitted.ok THEN step.result ELSE emitted.error,
     log |-> emitted.written]

\* Faulty variant of _authenticate: a failed validation is logged and the request goes on
\* as an anonymous caller with no scopes.
_authenticate_Anonymous(ctx, request_id, t) ==
    LET res == validate_token(_get_auth_header(ctx), t) IN
    IF res.ok
    THEN [result |-> res,
          log |-> <<[level |-> "INFO", message |-> "Authentication successful",
                     request_id |-> request_id, subject |-> res.value.subject,
                     scopes |-> res.value.scopes, decision |-> "authenticated"]>>]
    ELSE [result |-> Return(TokenInfo("", <<>>)),
          log |-> <<[level |-> "WARNING", message |-> "Authentication failed",
                     request_id |-> request_id, decision |-> "rejected",
                     reason |-> "authentication_failed"]>>]

\* Faulty variant of _authenticate: the TokenInfo of an authenticated request is kept
\* for the session, and a request whose own credential fails is served with it.
_authenticate_SessionCache(ctx, request_id, t) ==
    LET res == validate_token(_get_auth_header(ctx), t)
        kept == IF res.ok \/ BagToSet(req) = {}
                THEN res
                ELSE Return((CHOOSE r \in BagToSet(req) : TRUE).token_info)
    IN  IF kept.ok
        THEN [result |-> kept,
              log |-> <<[level |-> "INFO", message |-> "Authentication successful",
                         request_id |-> request_id, subject |-> kept.value.subject,
                         scopes |-> kept.value.scopes, decision |-> "authenticated"]>>]
        ELSE [result |-> kept,
              log |-> <<[level |-> "WARNING", message |-> "Authentication failed",
                         request_id |-> request_id, decision |-> "rejected",
                         reason |-> "authentication_failed"]>>]

\* Faulty variant of _authenticate: only failures are logged.
_authenticate_NoSuccessRecord(ctx, request_id, t) ==
    LET res == validate_token(_get_auth_header(ctx), t) IN
    IF res.ok
    THEN [result |-> res, log |-> <<>>]
    ELSE [result |-> res,
          log |-> <<[level |-> "WARNING", message |-> "Authentication failed",
                     request_id |-> request_id, decision |-> "rejected",
                     reason |-> "authentication_failed"]>>]

\* Faulty variant of _authenticate: a credential that fails validation is
\* validated a second time before the request is rejected.
_authenticate_RetriesOnFailure(ctx, request_id, t) ==
    LET auth_header == _get_auth_header(ctx)
        res == validate_token(auth_header, t)
        failed == [level |-> "WARNING", message |-> "Authentication failed",
                   request_id |-> request_id, decision |-> "rejected",
                   reason |-> "authentication_failed"]
    IN  IF res.ok
        THEN Logged([result |-> res,
                     log |-> <<[level |-> "INFO", message |-> "Authentication successful",
                                request_id |-> request_id, subject |-> res.value.subject,
                                scopes |-> res.value.scopes,
                                decision |-> "authenticated"]>>])
        ELSE Logged([result |-> validate_token(auth_header, t),
                     log |-> <<failed, failed>>])

\* _authenticate(request_id) at time t: the validator's result and the audit
\* record logged with it.
_authenticate(ctx, request_id, t) ==
    LET auth_header == _get_auth_header(ctx)
        res == validate_token(auth_header, t)
    IN  IF res.ok
        THEN Logged([result |-> res,
                     log |-> <<[level |-> "INFO", message |-> "Authentication successful",
                                request_id |-> request_id, subject |-> res.value.subject,
                                scopes |-> res.value.scopes,
                                decision |-> "authenticated"]>>])
        ELSE Logged([result |-> res,
                     log |-> <<[level |-> "WARNING", message |-> "Authentication failed",
                                request_id |-> request_id, decision |-> "rejected",
                                reason |-> "authentication_failed"]>>])

\* Faulty variant of authorized_tools: every mapped tool is kept, whatever the token grants.
authorized_tools_IgnoringGrant(all_tools, token_info) ==
    SelectSeq(all_tools, LAMBDA tool : Truthy(ScopeMapGet(tool)))

\* Faulty variant of authorized_tools: a tool the registry does not map is kept.
authorized_tools_KeepsUnmapped(all_tools, token_info) ==
    SelectSeq(all_tools,
              LAMBDA tool : LET required_scope == ScopeMapGet(tool)
                            IN  \/ ~required_scope.some
                                \/ InList(required_scope.v, token_info.scopes))

\* The filter loop of on_list_tools: the tools of all_tools, in order, whose
\* required scope is truthy and in the token's scopes.
authorized_tools(all_tools, token_info) ==
    SelectSeq(all_tools,
              LAMBDA tool : LET required_scope == ScopeMapGet(tool)
                            IN  /\ Truthy(required_scope)
                                /\ InList(required_scope.v, token_info.scopes))

\* The audit record on_list_tools logs after filtering.
FilteredRecord(request_id, token_info, all_tools, authorized) ==
    [level |-> "INFO", message |-> "Tool list filtered by scope",
     request_id |-> request_id, subject |-> token_info.subject,
     scopes |-> token_info.scopes, total_tools |-> Len(all_tools),
     authorized_tools |-> authorized, decision |-> "filtered"]

\* on_call_tool, no mapping for the tool (lines 280-296): the denial raised and
\* the audit record logged.
NoMappingDenial(tool_name, token_info, request_id) ==
    [result |-> Raise("PermissionError",
                      <<"Access denied: tool '", tool_name, "' has no scope mapping">>),
     log |-> <<[level |-> "WARNING",
                message |-> "Tool call denied: no scope mapping found",
                request_id |-> request_id, subject |-> token_info.subject,
                tool |-> tool_name, decision |-> "denied",
                reason |-> "no_scope_mapping"]>>]

\* Faulty variant of InsufficientScopeDenial: the message does not say which scope is missing.
InsufficientScopeDenial_Vague(tool_name, required_scope, token_info, request_id) ==
    [result |-> Raise("PermissionError", <<"Access denied: tool '", tool_name, "'">>),
     log |-> <<[level |-> "WARNING",
                message |-> "Tool call denied: insufficient scope",
                request_id |-> request_id, subject |-> token_info.subject,
                tool |-> tool_name, required_scope |-> required_scope,
                token_scopes |-> token_info.scopes, decision |-> "denied",
                reason |-> "insufficient_scope"]>>]

\* on_call_tool, the token lacks the required scope (lines 298-316).
InsufficientScopeDenial(tool_name, required_scope, token_info, request_id) ==
    [result |-> Raise("PermissionError",
                      <<"Access denied: tool '", tool_name, "' requires scope '",
                        required_scope, "'">>),
     log |-> <<[level |-> "WARNING",
                message |-> "Tool call denied: insufficient scope",
                request_id |-> request_id, subject |-> token_info.subject,
                tool |-> tool_name, required_scope |-> required_scope,
                token_scopes |-> token_info.scopes, decision |-> "denied",
                reason |-> "insufficient_scope"]>>]

\* on_call_tool, authorized (lines 318-330): the go-ahead to call the next stage
\* and the audit record logged before it.
GoAhead(tool_name, required_scope, token_info, request_id) ==
    [result |-> Return("call_next"),
     log |-> <<[level |-> "INFO", message |-> "Tool call authorized",
                request_id |-> request_id, subject |-> token_info.subject,
                tool |-> tool_name, required_scope |-> required_scope,
                decision |-> "allowed"]>>]

\* Faulty variant of check_scope: a tool without a mapping is open to every caller.
check_scope_DefaultAllow(tool_name, token_info, request_id) ==
    LET required_scope == ScopeMapGet(tool_name) IN
    IF ~required_scope.some
    THEN GoAhead(tool_name, "", token_info, request_id)
    ELSE IF ~InList(required_scope.v, token_info.scopes)
    THEN InsufficientScopeDenial(tool_name, required_scope.v, token_info, request_id)
    ELSE GoAhead(tool_name, required_scope.v, token_info, request_id)

\* Faulty variant of check_scope: a mapped tool is open to every authenticated caller.
check_scope_NoScopeTest(tool_name, token_info, request_id) ==
    LET required_scope == ScopeMapGet(tool_name) IN
    IF ~required_scope.some
    THEN NoMappingDenial(tool_name, token_info, request_id)
    ELSE GoAhead(tool_name, required_scope.v, token_info, request_id)

\* Step 2 and 3 of on_call_tool (lines 278-330): the scope check. Yields either
\* the denial raised or the go-ahead to call the next stage, with the audit record.
check_scope(tool_name, token_info, request_id) ==
    LET required_scope == ScopeMapGet(tool_name) IN
    IF ~required_scope.some
    THEN Logged(NoMappingDenial(tool_name, token_info, request_id))
    ELSE IF ~InList(required_scope.v, token_info.scopes)
    THEN Logged(InsufficientScopeDenial(tool_name, required_scope.v, token_info, request_id))
    ELSE Logged(GoAhead(tool_name, required_scope.v, token_info, request_id))

-----------------------------------------------------------------------------
(* Requests through the middleware *)

ToolNames == DOMAIN TOOL_SCOPE_MAP \cup {"unregistered_tool"}

\* The operation catalogs the next stage can return: tool names, none twice.
Catalogs ==
    {q \in UNION {[1..n -> ToolNames] : n \in 0..MaxCatalog} :
        \A i, j \in DOMAIN q : q[i] = q[j] => i = j}

\* What an operation body can return.
ToolResults == {"public document", "confidential document"}

\* The next stage failing on its own.
NextError == Raise("ToolError", <<"next stage failed">>)

\* The transport cancels the request: asyncio raises CancelledError at the await
\* of call_next.
Cancelled == Raise("CancelledError", <<>>)

\* str(uuid.uuid4())[:8]: a random draw.
RequestIds == {"1f0c3a9e", "7b2d4c58"}

MwPayload(exp, scope) ==
    [sub |-> Present(JStr("alice")), exp |-> Present(JInt(exp)), scope |-> scope]

BearerText == <<"B", "e", "a", "r", "e", "r", " ", TokenChar>>

\* The transport contexts requests arrive with: no HTTP request, no header, a
\* wrong scheme, a wrong signing key, a short-lived token, and long-lived tokens
\* with no scope claim, an empty grant, one grant and both grants.
MwContexts ==
    { NoHttp,
      Http(NoHeader),
      Http(Header(<<"B", "a", "s", "i", "c", " ", TokenChar>>,
                  Encode(MwPayload(MaxTime + 1,
                                   Present(JList(<<JStr("public:read")>>))),
                         jwt_secret_key, jwt_algorithm))),
      Http(Header(BearerText,
                  Encode(MwPayload(MaxTime + 1,
                                   Present(JList(<<JStr("public:read"),
                                                   JStr("confidential:read")>>))),
                         WrongKey, jwt_algorithm))),
      Http(Header(BearerText,
                  Encode(MwPayload(1, Present(JList(<<JStr("confidential:read")>>))),
                         jwt_secret_key, jwt_algorithm))) }
    \cup { Http(Header(BearerText,
                       Encode(MwPayload(MaxTime + 1, sc), jwt_secret_key, jwt_algorithm))) :
             sc \in { Absent,
                      Present(JList(<<>>)),
                      Present(JList(<<JStr("public:read")>>)),
                      Present(JList(<<JStr("confidential:read"), JStr("public:read")>>)) } }

NotCalled == [called |-> FALSE]

Called(result) == [called |-> TRUE, result |-> result]

\* A request suspended at its call to the next stage: what the handler holds
\* across the await.
InFlight(kind, ctx, request_id, tool_name, token_info, audit) ==
    [kind |-> kind, ctx |-> ctx, request_id |-> request_id, tool_name |-> tool_name,
     token_info |-> token_info, audit |-> audit, calls |-> 1]

\* A request that ended: its inputs, whether it was suspended at the next stage
\* on the way, the audit records it emitted, how often it called the next stage
\* and what that produced, and what the handler returned or raised.
Ended(kind, ctx, request_id, tool_name, resumed, audit, calls, next, outcome) ==
    [pc |-> "ended", kind |-> kind, ctx |-> ctx, request_id |-> request_id,
     tool_name |-> tool_name, resumed |-> resumed, audit |-> audit, calls |-> calls,
     next |-> next, outcome |-> outcome]

\* Faulty variant of ListToolsBegin: a failed authentication answers with an empty list.
ListToolsBegin_EmptyOnFailure(ctx, request_id) ==
    LET auth == _authenticate(ctx, request_id, now) IN
    /\ last = NoLast
    /\ IF auth.result.ok
       THEN /\ BagCardinality(req) < MaxReq
            /\ req' = req (+) SetToBag({InFlight("list", ctx, request_id, "",
                                                 auth.result.value, auth.log)})
            /\ last' = NoLast
       ELSE /\ req' = req
            /\ last' = Ended("list", ctx, request_id, "", FALSE, auth.log, 0,
                             NotCalled, Return(<<>>))
    /\ UNCHANGED <<now, vcall, sink, tool_scope_map, settings>>

\* on_list_tools up to the await of call_next (lines 217-223).
ListToolsBegin(ctx, request_id) ==
    LET auth == _authenticate(ctx, request_id, now) IN
    /\ last = NoLast
    /\ IF auth.result.ok
       THEN /\ BagCardinality(req) < MaxReq
            /\ req' = req (+) SetToBag({InFlight("list", ctx, request_id, "",
                                                 auth.result.value, auth.log)})
            /\ last' = NoLast
       ELSE /\ req' = req
            /\ last' = Ended("list", ctx, request_id, "", FALSE, auth.log, 0,
                             NotCalled, auth.result)
    /\ UNCHANGED <<now, vcall, sink, tool_scope_map, settings>>

\* Faulty variant of ListToolsEnd: the TokenInfo is kept in a field of the
\* middleware object, which another request suspended meanwhile has overwritten.
ListToolsEnd_SharedCredential(r, next) ==
    /\ last = NoLast
    /\ BagIn(r, req)
    /\ r.kind = "list"
    /\ req' = req (-) SetToBag({r})
    /\ LET others == BagToSet(req) \ {r}
           token_info == IF others = {} THEN r.token_info
                         ELSE (CHOOSE q \in others : TRUE).token_info
       IN  IF next.ok
           THEN LET authorized == authorized_tools(next.value, token_info)
                    filtered == Logged([result |-> Return(authorized),
                                        log |-> <<FilteredRecord(r.request_id, token_info,
                                                                 next.value, authorized)>>])
                IN  last' = Ended("list", r.ctx, r.request_id, "", TRUE,
                                  r.audit \o filtered.log, r.calls, Called(next),
                                  filtered.result)
           ELSE last' = Ended("list", r.ctx, r.request_id, "", TRUE, r.audit, r.calls,
                              Called(next), next)
    /\ UNCHANGED <<now, vcall, sink, tool_scope_map, settings>>

\* Faulty variant of ListToolsEnd: the filter record is logged in a finally
\* clause, also when call_next raised or the request was cancelled.
ListToolsEnd_LogsInFinally(r, next) ==
    /\ last = NoLast
    /\ BagIn(r, req)
    /\ r.kind = "list"
    /\ req' = req (-) SetToBag({r})
    /\ LET all_tools == IF next.ok THEN next.value ELSE <<>>
           authorized == authorized_tools(all_tools, r.token_info)
       IN  last' = Ended("list", r.ctx, r.request_id, "", TRUE,
                         Append(r.audit, FilteredRecord(r.request_id, r.token_info,
                                                        all_tools, authorized)),
                         r.calls, Called(next),
                         IF next.ok THEN Return(authorized) ELSE next)
    /\ UNCHANGED <<now, vcall, sink, tool_scope_map, settings>>

\* on_list_tools once call_next has returned or raised (lines 223-248).
ListToolsEnd(r, next) ==
    /\ last = NoLast
    /\ BagIn(r, req)
    /\ r.kind = "list"
    /\ req' = req (-) SetToBag({r})
    /\ IF next.ok
       THEN LET authorized == authorized_tools(next.value, r.token_info)
                filtered == Logged([result |-> Return(authorized),
                                    log |-> <<FilteredRecord(r.request_id, r.token_info,
                                                             next.value, authorized)>>])
            IN  last' = Ended("list", r.ctx, r.request_id, "", TRUE,
                              r.audit \o filtered.log, r.calls, Called(next),
                              filtered.result)
       ELSE last' = Ended("list", r.ctx, r.request_id, "", TRUE, r.audit, r.calls,
                          Called(next), next)
    /\ UNCHANGED <<now, vcall, sink, tool_scope_map, settings>>

\* Faulty variant of CallToolBegin: a per-credential counter of running invocations
\* is kept, and an invocation is turned down while another of the same credential
\* runs.
CallToolBegin_OneAtATime(ctx, request_id, tool_name) ==
    LET auth == _authenticate(ctx, request_id, now) IN
    /\ last = NoLast
    /\ IF ~auth.result.ok
       THEN /\ req' = req
            /\ last' = Ended("call", ctx, request_id, tool_name, FALSE, auth.log, 0,
                             NotCalled, auth.result)
       ELSE LET token_info == auth.result.value
                check == IF \E r \in BagToSet(req) : r.kind = "call" /\ r.ctx = ctx
                         THEN InsufficientScopeDenial(tool_name, "", token_info, request_id)
                         ELSE check_scope(tool_name, token_info, request_id)
            IN  IF ~check.result.ok
                THEN /\ req' = req
                     /\ last' = Ended("call", ctx, request_id, tool_name, FALSE,
                                      auth.log \o check.log, 0, NotCalled, check.result)
                ELSE /\ BagCardinality(req) < MaxReq
                     /\ req' = req (+) SetToBag({InFlight("call", ctx, request_id,
                                                          tool_name, token_info,
                                                          auth.log \o check.log)})
                     /\ last' = NoLast
    /\ UNCHANGED <<now, vcall, sink, tool_scope_map, settings>>

\* Faulty variant of CallToolBegin: the next stage is called first and "allowed"
\* is logged when it has returned.
CallToolBegin_LogsAfterwards(ctx, request_id, tool_name) ==
    LET auth == _authenticate(ctx, request_id, now) IN
    /\ last = NoLast
    /\ IF ~auth.result.ok
       THEN /\ req' = req
            /\ last' = Ended("call", ctx, request_id, tool_name, FALSE, auth.log, 0,
                             NotCalled, auth.result)
       ELSE LET token_info == auth.result.value
                check == check_scope(tool_name, token_info, request_id)
            IN  IF ~check.result.ok
                THEN /\ req' = req
                     /\ last' = Ended("call", ctx, request_id, tool_name, FALSE,
                                      auth.log \o check.log, 0, NotCalled, check.result)
                ELSE /\ BagCardinality(req) < MaxReq
                     /\ req' = req (+) SetToBag({InFlight("call", ctx, request_id,
                                                          tool_name, token_info,
                                                          auth.log)})
                     /\ last' = NoLast
    /\ UNCHANGED <<now, vcall, sink, tool_scope_map, settings>>

\* Faulty variant of CallToolBegin: an operation without a mapping is entered in
\* the registry on its first use, so that later requests are not denied for it.
CallToolBegin_RegistersUnknownTool(ctx, request_id, tool_name) ==
    LET auth == _authenticate(ctx, request_id, now) IN
    /\ last = NoLast
    /\ IF ~auth.result.ok
       THEN /\ req' = req
            /\ last' = Ended("call", ctx, request_id, tool_name, FALSE, auth.log, 0,
                             NotCalled, auth.result)
            /\ tool_scope_map' = tool_scope_map
       ELSE LET token_info == auth.result.value
                check == check_scope(tool_name, token_info, request_id)
            IN  IF ~check.result.ok
                THEN /\ req' = req
                     /\ last' = Ended("call", ctx, request_id, tool_name, FALSE,
                                      auth.log \o check.log, 0, NotCalled, check.result)
                     /\ tool_scope_map' =
                            [n \in DOMAIN tool_scope_map \cup {tool_name} |->
                                IF n \in DOMAIN tool_scope_map THEN tool_scope_map[n]
                                ELSE "public:read"]
                ELSE /\ BagCardinality(req) < MaxReq
                     /\ req' = req (+) SetToBag({InFlight("call", ctx, request_id,
                                                          tool_name, token_info,
                                                          auth.log \o check.log)})
                     /\ last' = NoLast
                     /\ tool_scope_map' = tool_scope_map
    /\ UNCHANGED <<now, vcall, sink, settings>>

\* on_call_tool up to the await of call_next (lines 271-332).
CallToolBegin(ctx, request_id, tool_name) ==
    LET auth == _authenticate(ctx, request_id, now) IN
    /\ last = NoLast
    /\ IF ~auth.result.ok
       THEN /\ req' = req
            /\ last' = Ended("call", ctx, request_id, tool_name, FALSE, auth.log, 0,
                             NotCalled, auth.result)
       ELSE LET token_info == auth.result.value
                check == check_scope(tool_name, token_info, request_id)
            IN  IF ~check.result.ok
                THEN /\ req' = req
                     /\ last' = Ended("call", ctx, request_id, tool_name, FALSE,
                                      auth.log \o check.log, 0, NotCalled, check.result)
                ELSE /\ BagCardinality(req) < MaxReq
                     /\ req' = req (+) SetToBag({InFlight("call", ctx, request_id,
                                                          tool_name, token_info,
                                                          auth.log \o check.log)})
                     /\ last' = NoLast
    /\ UNCHANGED <<now, vcall, sink, tool_scope_map, settings>>

\* Faulty variant of CallToolEnd: the next stage is awaited and its result not returned.
CallToolEnd_DropsResult(r, next) ==
    /\ last = NoLast
    /\ BagIn(r, req)
    /\ r.kind = "call"
    /\ req' = req (-) SetToBag({r})
    /\ last' = Ended("call", r.ctx, r.request_id, r.tool_name, TRUE, r.audit, r.calls,
                     Called(next), IF next.ok THEN Return("None") ELSE next)
    /\ UNCHANGED <<now, vcall, sink, tool_scope_map, settings>>

\* Faulty variant of CallToolEnd: the hook awaits something that never completes
\* after the next stage has returned, and the request has no outcome.
CallToolEnd_NeverEnds(r, next) ==
    /\ last = NoLast
    /\ BagIn(r, req)
    /\ r.kind = "call"
    /\ req' = req (-) SetToBag({r})
    /\ last' = NoLast
    /\ UNCHANGED <<now, vcall, sink, tool_scope_map, settings>>

\* on_call_tool once call_next has returned or raised (line 332).
CallToolEnd(r, next) ==
    /\ last = NoLast
    /\ BagIn(r, req)
    /\ r.kind = "call"
    /\ req' = req (-) SetToBag({r})
    /\ last' = Ended("call", r.ctx, r.request_id, r.tool_name, TRUE, r.audit, r.calls,
                     Called(next), next)
    /\ UNCHANGED <<now, vcall, sink, tool_scope_map, settings>>

\* The protocol runtime sends the response of the request that just ended, before
\* it runs anything else.
Respond ==
    /\ last # NoLast
    /\ last' = NoLast
    /\ UNCHANGED <<now, vcall, req, sink, tool_scope_map, settings>>

-----------------------------------------------------------------------------
(* Health and readiness endpoints: src/server.py *)

\* JSONResponse(body, status_code=...); the body is its status field, with the
\* reason where there is one.
JSONResponse(status, reason, status_code) ==
    [status_code |-> status_code, status |-> status, reason |-> reason]

\* An endpoint request that was served: the route, the HTTP request, the state
\* of the document files read, and the response.
Served(route, request, documents, response) ==
    [pc |-> "served", route |-> route, request |-> request, documents |-> documents,
     response |-> response]

\* The document files on disk: whether public.md and confidential.md exist.
DocumentStates == [public : BOOLEAN, confidential : BOOLEAN]

\* The HTTP requests the probes arrive with: no Authorization header, a header
\* without a token, and Bearer headers with tokens of either key, valid or not.
ProbeRequests ==
    {Http(NoHeader)}
    \cup {Http(Header(x, NoTok)) : x \in PlainTexts}
    \cup {Http(Header(BearerText, Encode([sub |-> u, exp |-> e, scope |-> sc],
                                         k, jwt_algorithm))) :
             u \in SubClaims, e \in ExpClaims, k \in Keys,
             sc \in {Absent, Present(JList(<<JStr("public:read")>>))}}

\* Faulty variant of health_check: the probe is put behind the credential check.
health_check_Gated(request) ==
    LET res == validate_token(request.authorization, now) IN
    /\ last = NoLast
    /\ vcall.pc = "ready"
    /\ vcall' = [pc |-> "done", header |-> request.authorization, at |-> now,
                 result |-> res]
    /\ last' = Served("/health", request, [public |-> TRUE, confidential |-> TRUE],
                      IF res.ok THEN JSONResponse("healthy", "", 200)
                      ELSE JSONResponse("unauthorized", "", 401))
    /\ UNCHANGED <<now, req, sink, tool_scope_map, settings>>

\* GET /health (lines 406-409).
health_check(request) ==
    /\ last = NoLast
    /\ last' = Served("/health", request, [public |-> TRUE, confidential |-> TRUE],
                      JSONResponse("healthy", "", 200))
    /\ UNCHANGED <<now, vcall, req, sink, tool_scope_map, settings>>

\* GET /ready (lines 412-424), with the document files in state documents.
readiness_check(request, documents) ==
    /\ last = NoLast
    /\ last' = Served("/ready", request, documents,
                      IF ~documents.public \/ ~documents.confidential
                      THEN JSONResponse("not_ready", "document files missing", 503)
                      ELSE JSONResponse("ready", "", 200))
    /\ UNCHANGED <<now, vcall, req, sink, tool_scope_map, settings>>

-----------------------------------------------------------------------------
(* Specifications *)

Init ==
    /\ now = 0
    /\ vcall = NoCall
    /\ req = EmptyBag
    /\ last = NoLast
    /\ sink = TRUE
    /\ tool_scope_map = TOOL_SCOPE_MAP
    /\ settings = [jwt_secret_key |-> jwt_secret_key, jwt_algorithm |-> jwt_algorithm]

Next ==
    \/ \E ctx \in MwContexts, id \in RequestIds : ListToolsBegin(ctx, id)
    \/ \E r \in BagToSet(req), c \in Catalogs : ListToolsEnd(r, Return(c))
    \/ \E r \in BagToSet(req) : ListToolsEnd(r, NextError)
    \/ \E ctx \in MwContexts, id \in RequestIds, t \in ToolNames : CallToolBegin(ctx, id, t)
    \/ \E r \in BagToSet(req), v \in ToolResults : CallToolEnd(r, Return(v))
    \/ \E r \in BagToSet(req) : CallToolEnd(r, NextError)
    \/ \E r \in BagToSet(req) : ListToolsEnd(r, Cancelled)
    \/ \E r \in BagToSet(req) : CallToolEnd(r, Cancelled)
    \/ Respond
    \/ Tick

Spec == Init /\ [][Next]_vars

NextV ==
    \/ \E h \in Headers : Validate(h)
    \/ Forget
    \/ Tick

SpecV == Init /\ [][NextV]_vars

\* The audit sink (stdout) stops accepting writes, and accepts them again.
SinkFails ==
    /\ last = NoLast
    /\ sink
    /\ sink' = FALSE
    /\ UNCHANGED <<now, vcall, req, last, tool_scope_map, settings>>

SinkRestored ==
    /\ last = NoLast
    /\ ~sink
    /\ sink' = TRUE
    /\ UNCHANGED <<now, vcall, req, last, tool_scope_map, settings>>

\* The contexts of the requests run against a failing sink: no header, a
\* short-lived token, and long-lived tokens with one grant and with both.
AuditContexts ==
    { Http(NoHeader),
      Http(Header(BearerText,
                  Encode(MwPayload(1, Present(JList(<<JStr("confidential:read")>>))),
                         jwt_secret_key, jwt_algorithm))),
      Http(Header(BearerText,
                  Encode(MwPayload(MaxTime + 1, Present(JList(<<JStr("public:read")>>))),
                         jwt_secret_key, jwt_algorithm))),
      Http(Header(BearerText,
                  Encode(MwPayload(MaxTime + 1,
                                   Present(JList(<<JStr("confidential:read"),
                                                   JStr("public:read")>>))),
                         jwt_secret_key, jwt_algorithm))) }

\* The middleware with an audit sink that can fail at any moment.
NextA ==
    \/ \E ctx \in AuditContexts, id \in RequestIds : ListToolsBegin(ctx, id)
    \/ \E r \in BagToSet(req), c \in Catalogs : ListToolsEnd(r, Return(c))
    \/ \E r \in BagToSet(req) : ListToolsEnd(r, NextError)
    \/ \E ctx \in AuditContexts, id \in RequestIds, t \in ToolNames :
           CallToolBegin(ctx, id, t)
    \/ \E r \in BagToSet(req), v \in ToolResults : CallToolEnd(r, Return(v))
    \/ \E r \in BagToSet(req) : CallToolEnd(r, NextError)
    \/ Respond
    \/ Tick
    \/ SinkFails
    \/ SinkRestored

SpecA == Init /\ [][NextA]_vars

\* The contexts of the requests run to their end: no header, a short-lived
\* token and a long-lived one.
LiveContexts ==
    { Http(NoHeader),
      Http(Header(BearerText,
                  Encode(MwPayload(1, Present(JList(<<JStr("confidential:read")>>))),
                         jwt_secret_key, jwt_algorithm))),
      Http(Header(BearerText,
                  Encode(MwPayload(MaxTime + 1, Present(JList(<<JStr("public:read")>>))),
                         jwt_secret_key, jwt_algorithm))) }

\* What tells the suspended requests of the process apart: the kind of request,
\* its context, its request id and, for an invocation, the operation name. Only
\* a request with a token is suspended, an invocation only of an operation the
\* token grants.
RequestKeys ==
    { k \in [kind : {"list"}, ctx : LiveContexts, request_id : RequestIds,
             tool_name : {""}] : k.ctx.authorization.present } \cup
    { k \in [kind : {"call"}, ctx : LiveContexts, request_id : RequestIds,
             tool_name : DOMAIN TOOL_SCOPE_MAP] :
          /\ k.ctx.authorization.present
          /\ \E i \in DOMAIN k.ctx.authorization.tok.payload.scope.val.list :
                 k.ctx.authorization.tok.payload.scope.val.list[i].str =
                     TOOL_SCOPE_MAP[k.tool_name] }

\* The suspended requests with key k.
Suspended(k) ==
    {r \in BagToSet(req) : /\ r.kind = k.kind
                           /\ r.ctx = k.ctx
                           /\ r.request_id = k.request_id
                           /\ r.tool_name = k.tool_name}

\* The next stage returns to the suspended request r and the hook runs on.
Resume(r) ==
    \/ \E c \in Catalogs : ListToolsEnd(r, Return(c))
    \/ \E v \in ToolResults : CallToolEnd(r, Return(v))

\* The middleware with a next stage that returns.
NextL ==
    \/ \E ctx \in LiveContexts, id \in RequestIds : ListToolsBegin(ctx, id)
    \/ \E r \in BagToSet(req), c \in Catalogs : ListToolsEnd(r, Return(c))
    \/ \E ctx \in LiveContexts, id \in RequestIds, t \in ToolNames :
           CallToolBegin(ctx, id, t)
    \/ \E r \in BagToSet(req), v \in ToolResults : CallToolEnd(r, Return(v))
    \/ Respond
    \/ Tick

\* The event loop runs every coroutine whose awaited call has returned, and
\* sends every response; clients are free to send requests or not.
SpecL ==
    /\ Init
    /\ [][NextL]_vars
    /\ WF_vars(Respond)
    /\ \A k \in RequestKeys : SF_vars(\E r \in Suspended(k) : Resume(r))

NextH ==
    \/ \E request \in ProbeRequests : health_check(request)
    \/ \E request \in ProbeRequests, documents \in DocumentStates :
           readiness_check(request, documents)
    \/ Respond

SpecH == Init /\ [][NextH]_vars

-----------------------------------------------------------------------------
(* Vocabulary of the properties *)

InFlightRequests == BagToSet(req)

EndedCall == last.pc = "ended" /\ last.kind = "call"

EndedList == last.pc = "ended" /\ last.kind = "list"

\* The credential of a transport context validates at time t.
Validates(ctx, t) == validate_token(_get_auth_header(ctx), t).ok

\* The credential validated at some evaluation time up to the present.
ValidatedBefore(ctx) == \E t \in 0..now : Validates(ctx, t)

\* The scopes the token of a context grants, read off its claim set.
ClaimedScopes(ctx) ==
    LET claim == ctx.authorization.tok.payload.scope IN
    IF ctx.http /\ ctx.authorization.present /\ claim.has /\ IsList(claim.val)
    THEN {claim.val.list[i].str : i \in {j \in DOMAIN claim.val.list : IsStr(claim.val.list[j])}}
    ELSE {}

\* The registry maps the operation and the context's token grants that scope.
Entitled(ctx, op) == op \in DOMAIN TOOL_SCOPE_MAP /\ TOOL_SCOPE_MAP[op] \in ClaimedScopes(ctx)

\* res holds exactly the entries of cat that satisfy keep, in cat's order
\* (cat holds no entry twice).
IsSelection(res, cat, keep(_)) ==
    /\ {res[i] : i \in DOMAIN res} = {cat[j] : j \in {k \in DOMAIN cat : keep(cat[k])}}
    /\ \A i, j \in DOMAIN res : i < j =>
          \E a, b \in DOMAIN cat : a < b /\ cat[a] = res[i] /\ cat[b] = res[j]

IsPermissionError(outcome) == ~outcome.ok /\ outcome.exc.cls = "PermissionError"

IsAuthError(outcome) == ~outcome.ok /\ outcome.exc.cls = "AuthError"

-----------------------------------------------------------------------------
(* Properties of the middleware, checked under Spec *)

\* C1: when the credential validated and the next stage returned a catalog,
\* on_list_tools returns exactly the catalog's operations, in catalog order, whose
\* name TOOL_SCOPE_MAP maps to a scope the credential grants; nothing else, so an
\* empty grant yields the empty list.
C1_ListIsExactlyTheEntitledOperations ==
    (EndedList /\ last.next.called /\ last.next.result.ok) =>
        /\ last.outcome.ok
        /\ IsSelection(last.outcome.value, last.next.result.value,
                       LAMBDA op : Entitled(last.ctx, op))
        /\ (ClaimedScopes(last.ctx) = {} => last.outcome.value = <<>>)

C1_Witness ==
    /\ EndedList
    /\ last.next.called
    /\ last.next.result = Return(<<"get_confidential_info", "get_public_info">>)
    /\ ClaimedScopes(last.ctx) = {"public:read"}
    /\ last.outcome = Return(<<"get_public_info">>)

\* C2: an invocation of a name the registry does not map never reaches the next
\* stage; with a credential that validates, whatever it grants, it ends in a
\* permission error.
C2_UnmappedOperationIsDenied ==
    /\ \A r \in InFlightRequests : r.kind = "call" => r.tool_name \in DOMAIN TOOL_SCOPE_MAP
    /\ (EndedCall /\ last.tool_name \notin DOMAIN TOOL_SCOPE_MAP) =>
           /\ ~last.resumed
           /\ last.calls = 0
           /\ ~last.next.called
           /\ (Validates(last.ctx, now) => IsPermissionError(last.outcome))

C2_Witness ==
    /\ EndedCall
    /\ last.tool_name = "unregistered_tool"
    /\ ClaimedScopes(last.ctx) = {"public:read", "confidential:read"}
    /\ Validates(last.ctx, now)
    /\ IsPermissionError(last.outcome)
    /\ last.calls = 0

\* C3: an invocation of a registered operation with a validated credential that
\* does not grant the operation's scope ends in a permission error whose message
\* names the operation and the missing scope, and never reaches the next stage.
C3_InsufficientScopeIsDenied ==
    /\ \A r \in InFlightRequests : r.kind = "call" => Entitled(r.ctx, r.tool_name)
    /\ (EndedCall /\ last.resumed) => Entitled(last.ctx, last.tool_name)
    /\ (/\ EndedCall
        /\ ~last.resumed
        /\ Validates(last.ctx, now)
        /\ last.tool_name \in DOMAIN TOOL_SCOPE_MAP
        /\ ~Entitled(last.ctx, last.tool_name)) =>
           /\ IsPermissionError(last.outcome)
           /\ InList(last.tool_name, last.outcome.exc.msg)
           /\ InList(TOOL_SCOPE_MAP[last.tool_name], last.outcome.exc.msg)
           /\ last.calls = 0
           /\ ~last.next.called

C3_Witness ==
    /\ EndedCall
    /\ last.tool_name = "get_confidential_info"
    /\ ClaimedScopes(last.ctx) = {"public:read"}
    /\ Validates(last.ctx, now)
    /\ IsPermissionError(last.outcome)
    /\ InList("confidential:read", last.outcome.exc.msg)

\* C4: an invocation of a registered operation with a validated credential that
\* grants the operation's scope calls the next stage, exactly once, and ends with
\* what the next stage produced, unchanged.
C4_AllowedCallReturnsNextResult ==
    /\ \A r \in InFlightRequests : r.calls = 1
    /\ (EndedCall /\ ~last.resumed) =>
           ~(Validates(last.ctx, now) /\ Entitled(last.ctx, last.tool_name))
    /\ (EndedCall /\ last.resumed) =>
           /\ last.calls = 1
           /\ last.next.called
           /\ last.outcome = last.next.result

C4_Witness ==
    /\ EndedCall
    /\ last.resumed
    /\ last.tool_name = "get_confidential_info"
    /\ "confidential:read" \in ClaimedScopes(last.ctx)
    /\ last.outcome = Return("confidential document")

\* C5: an invocation whose credential does not validate ends with the validator's
\* authentication error, with the registry not consulted (the error is the
\* same for mapped and unmapped names, and no denial or go-ahead is logged) and the
\* next stage not called; no invocation is suspended at or resumed from the next
\* stage without a credential that validated.
C5_CallRejectedBeforeAuthorization ==
    /\ \A r \in InFlightRequests : r.kind = "call" => ValidatedBefore(r.ctx)
    /\ (EndedCall /\ last.resumed) => ValidatedBefore(last.ctx)
    /\ (EndedCall /\ ~last.resumed /\ ~Validates(last.ctx, now)) =>
           /\ IsAuthError(last.outcome)
           /\ last.outcome = validate_token(_get_auth_header(last.ctx), now)
           /\ last.calls = 0
           /\ ~last.next.called
           /\ \A i \in DOMAIN last.audit : last.audit[i].decision = "rejected"

C5_Witness ==
    /\ EndedCall
    /\ last.ctx.http
    /\ last.ctx.authorization.tok.sig.key = WrongKey
    /\ last.tool_name = "unregistered_tool"
    /\ IsAuthError(last.outcome)
    /\ last.calls = 0

\* C6: a list request whose credential does not validate ends with the
\* validator's error, not with a list, and the next stage is not asked for the
\* catalog; no list request is suspended at or resumed from the next stage without
\* a credential that validated.
C6_ListRejectedWithValidatorError ==
    /\ \A r \in InFlightRequests : r.kind = "list" => ValidatedBefore(r.ctx)
    /\ (EndedList /\ last.resumed) => ValidatedBefore(last.ctx)
    /\ (EndedList /\ ~last.resumed /\ ~Validates(last.ctx, now)) =>
           /\ ~last.outcome.ok
           /\ last.outcome = validate_token(_get_auth_header(last.ctx), now)
           /\ last.calls = 0
           /\ ~last.next.called

C6_Witness ==
    /\ EndedList
    /\ last.ctx = Http(NoHeader)
    /\ last.outcome = AuthError(<<"Missing Authorization header">>)
    /\ last.calls = 0

\* The number of suspended requests equal to r.
Copies(bag, r) == IF BagIn(r, bag) THEN CopiesIn(r, bag) ELSE 0

\* C7: a request passes Unauthenticated -> Authenticated -> {Allowed | Denied} in
\* that order. Every step that suspends a request at the next stage is one whose
\* credential validates at that moment and that has logged "authenticated" first;
\* every request that ends allowed (with the next stage called, or with a list)
\* was such a suspended request; a request that ends denied has validated and
\* logged "authenticated" first.
C7_AllowedOnlyAfterAuthenticated ==
    [][ /\ \A r \in BagToSet(req') :
              Copies(req', r) > Copies(req, r) =>
                  /\ Validates(r.ctx, now)
                  /\ r.audit[1].decision = "authenticated"
                  /\ \A i \in DOMAIN r.audit :
                         r.audit[i].decision \in {"allowed", "filtered", "denied"} => i > 1
        /\ (last'.pc = "ended" /\ last # last' /\ (last'.calls > 0 \/ last'.outcome.ok)) =>
              \E r \in BagToSet(req) :
                  /\ Copies(req', r) < Copies(req, r)
                  /\ r.ctx = last'.ctx
                  /\ r.kind = last'.kind
                  /\ r.audit[1].decision = "authenticated"
                  /\ last'.audit[1] = r.audit[1]
        /\ (last'.pc = "ended" /\ last # last' /\ IsPermissionError(last'.outcome)) =>
              /\ Validates(last'.ctx, now)
              /\ Len(last'.audit) = 2
              /\ last'.audit[1].decision = "authenticated"
              /\ last'.audit[2].decision = "denied"
      ]_vars

C7_Witness ==
    /\ EndedCall
    /\ last.resumed
    /\ last.outcome.ok
    /\ Len(last.audit) = 2
    /\ last.audit[1].decision = "authenticated"
    /\ last.audit[2].decision = "allowed"
    /\ now > 0
    /\ ~Validates(last.ctx, now)

\* C8: the invocation gate agrees with the list filter, whatever requests came
\* before. An invocation goes on to the next stage only for an operation
\* on_list_tools lists for the same credential, and every invocation denied with
\* a permission error is of an operation on_list_tools leaves out.
C8_CallAllowedExactlyWhenListed ==
    /\ \A r \in InFlightRequests :
           r.kind = "call" =>
               authorized_tools(<<r.tool_name>>, r.token_info) = <<r.tool_name>>
    /\ (EndedCall /\ ~last.resumed /\ Validates(last.ctx, now)) =>
           /\ IsPermissionError(last.outcome)
           /\ authorized_tools(<<last.tool_name>>,
                               validate_token(_get_auth_header(last.ctx), now).value) = <<>>

C8_Witness ==
    /\ EndedCall
    /\ ~last.resumed
    /\ Validates(last.ctx, now)
    /\ last.tool_name = "get_public_info"
    /\ ClaimedScopes(last.ctx) = {"confidential:read"}
    /\ IsPermissionError(last.outcome)
    /\ \E r \in InFlightRequests : r.kind = "list" /\ r.ctx = last.ctx

-----------------------------------------------------------------------------
(* Properties of validate_token, checked under SpecV *)

Validated == vcall.pc = "done"

\* The positions of a text that come after its first space.
AfterFirstSpace(text) == {i \in DOMAIN text : \E j \in 1..(i - 1) : text[j] = " "}

\* The scheme of a header text: what precedes the first space.
SchemeLen(text) == Cardinality({i \in DOMAIN text : \A j \in 1..i : text[j] # " "})

BearerLetters == <<{"B", "b"}, {"E", "e"}, {"A", "a"}, {"R", "r"}, {"E", "e"}, {"R", "r"}>>

HasBearerScheme(text) ==
    /\ SchemeLen(text) = Len(BearerLetters)
    /\ \A i \in DOMAIN BearerLetters : text[i] \in BearerLetters[i]

\* Nothing but spaces, if anything, follows the scheme.
NoTokenAfterScheme(text) == \A i \in AfterFirstSpace(text) : text[i] = " "

\* C9: a header that is absent, empty, without a token after the scheme, or of
\* a scheme other than Bearer makes validate_token raise AuthError; no TokenInfo
\* is returned.
C9_MalformedHeaderRaisesAuthError ==
    (/\ Validated
     /\ \/ ~vcall.header.present
        \/ vcall.header.text = <<>>
        \/ NoTokenAfterScheme(vcall.header.text)
        \/ ~HasBearerScheme(vcall.header.text)) =>
        IsAuthError(vcall.result)

C9_Witness ==
    /\ Validated
    /\ vcall.header.text = <<"B", "e", "a", "r", "e", "r", " ">>
    /\ NoTokenAfterScheme(vcall.header.text)
    /\ HasBearerScheme(vcall.header.text)
    /\ IsAuthError(vcall.result)

\* The claim set is well formed and unexpired at time t.
WellFormedClaims(payload, t) ==
    /\ payload.sub.has
    /\ payload.exp.has
    /\ payload.exp.val.int > t
    /\ payload.scope.has
    /\ IsList(payload.scope.val)
    /\ \A i \in DOMAIN payload.scope.val.list : IsStr(payload.scope.val.list[i])

\* C10: a header carrying a token whose signature was made with a key other than
\* the configured secret makes validate_token raise AuthError, whatever its
\* claims.
C10_WrongKeyRaisesAuthError ==
    (/\ Validated
     /\ vcall.header.present
     /\ InList(TokenChar, vcall.header.text)
     /\ vcall.header.tok.sig.key # jwt_secret_key) =>
        IsAuthError(vcall.result)

C10_Witness ==
    /\ Validated
    /\ vcall.header.text = BearerText
    /\ vcall.header.tok.alg = jwt_algorithm
    /\ vcall.header.tok.sig = Sign(WrongKey, jwt_algorithm, vcall.header.tok.payload)
    /\ WellFormedClaims(vcall.header.tok.payload, vcall.at)
    /\ vcall.result = AuthError(<<"Invalid token: ", "Signature verification failed">>)

\* The header is "<scheme> <token>" with the scheme bearer in some letter case.
CarriesBearerToken(h) ==
    /\ h.present
    /\ HasBearerScheme(h.text)
    /\ SubSeq(h.text, Len(BearerLetters) + 2, Len(h.text)) = <<TokenChar>>

\* The token was signed by the configured secret with the configured algorithm
\* and not altered since.
CorrectlySigned(tok) ==
    /\ tok.alg = jwt_algorithm
    /\ tok.sig = Sign(jwt_secret_key, jwt_algorithm, tok.payload)

\* C11: a token whose exp lies before the instant at which validate_token
\* evaluates it, by one second or more, fails validation, with a valid signature
\* or without; presented as a Bearer token with a valid signature and the
\* required claims, it fails as expired.
C11_ExpiredTokenFails ==
    (/\ Validated
     /\ vcall.header.present
     /\ InList(TokenChar, vcall.header.text)
     /\ vcall.header.tok.payload.exp.has
     /\ vcall.header.tok.payload.exp.val.int < vcall.at) =>
        /\ IsAuthError(vcall.result)
        /\ (/\ CarriesBearerToken(vcall.header)
            /\ CorrectlySigned(vcall.header.tok)
            /\ vcall.header.tok.payload.sub.has) =>
               vcall.result = AuthError(<<"Token has expired">>)

C11_Witness ==
    /\ Validated
    /\ CarriesBearerToken(vcall.header)
    /\ CorrectlySigned(vcall.header.tok)
    /\ vcall.header.tok.payload.sub.has
    /\ vcall.header.tok.payload.exp.has
    /\ vcall.header.tok.payload.exp.val.int + 1 = vcall.at
    /\ vcall.result = AuthError(<<"Token has expired">>)

\* C12: a correctly signed token without the exp claim or without the sub claim
\* fails validation with AuthError, whatever else it carries: no expiry and no
\* subject is assumed in place of the missing one. Presented as a Bearer token,
\* the error names the missing claim, exp before sub.
C12_MissingRequiredClaimFails ==
    (/\ Validated
     /\ vcall.header.present
     /\ InList(TokenChar, vcall.header.text)
     /\ CorrectlySigned(vcall.header.tok)
     /\ \/ ~vcall.header.tok.payload.exp.has
        \/ ~vcall.header.tok.payload.sub.has) =>
        /\ IsAuthError(vcall.result)
        /\ CarriesBearerToken(vcall.header) =>
               vcall.result =
                   IF ~vcall.header.tok.payload.exp.has
                   THEN AuthError(<<"Invalid token: ", "Token is missing the \"exp\" claim">>)
                   ELSE AuthError(<<"Invalid token: ", "Token is missing the \"sub\" claim">>)

C12_Witness ==
    /\ Validated
    /\ CarriesBearerToken(vcall.header)
    /\ CorrectlySigned(vcall.header.tok)
    /\ ~vcall.header.tok.payload.sub.has
    /\ vcall.header.tok.payload.exp.has
    /\ vcall.header.tok.payload.exp.val.int > vcall.at
    /\ vcall.header.tok.payload.scope = Present(JList(<<JStr("public:read")>>))
    /\ vcall.result = AuthError(<<"Invalid token: ", "Token is missing the \"sub\" claim">>)

\* The token passes the decode-and-verify step at time t: presented as a Bearer
\* token, correctly signed, with exp and sub, not expired.
PassesDecode(h, t) ==
    /\ CarriesBearerToken(h)
    /\ CorrectlySigned(h.tok)
    /\ h.tok.payload.sub.has
    /\ h.tok.payload.exp.has
    /\ h.tok.payload.exp.val.int > t

\* C13: a correctly signed, unexpired token whose scope claim is present and
\* malformed fails with the error of its shape: "must be a list" for a claim that
\* is not a list, "all entries must be strings" for a list holding a non-string.
\* No TokenInfo is returned in either case.
C13_MalformedScopeClaimFails ==
    (/\ Validated
     /\ PassesDecode(vcall.header, vcall.at)
     /\ vcall.header.tok.payload.scope.has) =>
        LET claim == vcall.header.tok.payload.scope.val IN
        /\ ~IsList(claim) =>
               vcall.result = AuthError(<<"Invalid scope claim: must be a list">>)
        /\ (IsList(claim) /\ \E i \in DOMAIN claim.list : ~IsStr(claim.list[i])) =>
               vcall.result = AuthError(<<"Invalid scope claim: all entries must be strings">>)

C13_Witness ==
    /\ Validated
    /\ PassesDecode(vcall.header, vcall.at)
    /\ vcall.header.tok.payload.scope = Present(JList(<<JStr("public:read"), JInt(123)>>))
    /\ vcall.result = AuthError(<<"Invalid scope claim: all entries must be strings">>)

\* C15: the scheme is matched without regard to letter case. A header that is
\* otherwise valid validates under every spelling of the scheme (Bearer, bearer,
\* BEARER, mixed), and to the same TokenInfo: the subject and the scopes of the
\* token.
C15_SchemeIsCaseInsensitive ==
    (/\ Validated
     /\ PassesDecode(vcall.header, vcall.at)
     /\ WellFormedClaims(vcall.header.tok.payload, vcall.at)) =>
        LET payload == vcall.header.tok.payload IN
        vcall.result =
            Return(TokenInfo(payload.sub.val.str,
                             [i \in DOMAIN payload.scope.val.list |->
                                  payload.scope.val.list[i].str]))

C15_Witness ==
    /\ Validated
    /\ vcall.header.text = <<"B", "E", "A", "R", "E", "R", " ", TokenChar>>
    /\ PassesDecode(vcall.header, vcall.at)
    /\ vcall.result = Return(TokenInfo("bob", <<"confidential:read", "public:read">>))

\* The header passes the presence and the format check, and jwt.decode raises
\* on its token at time t.
DecodeStepFails(h, t) ==
    /\ h.present
    /\ HasBearerScheme(h.text)
    /\ Len(h.text) > Len(BearerLetters)
    /\ ~jwt_decode(SubSeq(h.text, Len(BearerLetters) + 2, Len(h.text)), h.tok,
                   jwt_secret_key, jwt_algorithm, t).ok

\* A header whose token cannot be parsed.
UnparseableTokenHeader == Header(<<"B", "e", "a", "r", "e", "r", " ", "x">>, NoTok)

\* C18: every failure of the decode-and-verify step, whatever its cause (bad
\* signature, unparseable token, wrong algorithm, missing required claim,
\* expired), raises one and the same error: the error raised for a token that
\* cannot be parsed.
C18_DecodeFailuresRaiseOneError ==
    (Validated /\ DecodeStepFails(vcall.header, vcall.at)) =>
        vcall.result = validate_token(UnparseableTokenHeader, vcall.at)

\* The lists of strings among the scope lists of the model.
StringScopeLists ==
    {[i \in DOMAIN q |-> q[i].str] :
        q \in {x \in ScopeLists : \A i \in DOMAIN x : IsStr(x[i])}}

IsSpace(c) == c \in {" ", "\t"}

\* The text is two whitespace-separated tokens, the first being the Bearer scheme
\* in some letter case: the scheme, one space, and a token free of whitespace.
TwoTokensWithBearer(text) ==
    /\ HasBearerScheme(text)
    /\ Len(text) > Len(BearerLetters) + 1
    /\ \A i \in (Len(BearerLetters) + 2)..Len(text) : ~IsSpace(text[i])

\* C24: scheme extraction accepts a header only when it is exactly two
\* whitespace-separated tokens with the first being Bearer; every other non-empty
\* header, also one of three tokens or with extra whitespace between the two,
\* fails with the error of the format step.
C24_OnlyTwoTokenHeadersPassTheFormatStep ==
    (/\ Validated
     /\ vcall.header.present
     /\ vcall.header.text # <<>>
     /\ ~TwoTokensWithBearer(vcall.header.text)) =>
        vcall.result =
            AuthError(<<"Invalid Authorization header format, expected 'Bearer <token>'">>)

\* The steps of the pipeline a header violates, each taken by itself.
ViolatesPresence(h) == ~h.present \/ h.text = <<>>

ViolatesScheme(h) ==
    ~(HasBearerScheme(h.text) /\ Len(h.text) > Len(BearerLetters))

ViolatesDecode(h, t) ==
    \/ ~InList(TokenChar, h.text)
    \/ \E i \in DOMAIN h.text : i > Len(BearerLetters) + 1 /\ h.text[i] # TokenChar
    \/ ~CorrectlySigned(h.tok)
    \/ ~h.tok.payload.exp.has
    \/ ~h.tok.payload.sub.has
    \/ h.tok.payload.exp.val.int <= t

ViolatesTyping(h) ==
    /\ h.tok.payload.scope.has
    /\ \/ ~IsList(h.tok.payload.scope.val)
       \/ \E i \in DOMAIN h.tok.payload.scope.val.list :
              ~IsStr(h.tok.payload.scope.val.list[i])

\* The pipeline step an error message belongs to.
StepOfError(result) ==
    LET head == result.exc.msg[1] IN
    IF head = "Missing Authorization header" THEN "presence"
    ELSE IF head = "Invalid Authorization header format, expected 'Bearer <token>'"
    THEN "scheme"
    ELSE IF head \in {"Token has expired", "Invalid token: "} THEN "decode"
    ELSE "typing"

\* C25: the steps run in the order presence, scheme extraction, decode and
\* verify, claim typing, and the first step a header violates decides the error:
\* a later step's error is raised only for a header that passes every earlier
\* step, and a header that violates no step validates.
C25_EarliestViolatedStepDecides ==
    Validated =>
        LET h == vcall.header
            first == IF ViolatesPresence(h) THEN "presence"
                     ELSE IF ViolatesScheme(h) THEN "scheme"
                     ELSE IF ViolatesDecode(h, vcall.at) THEN "decode"
                     ELSE IF ViolatesTyping(h) THEN "typing"
                     ELSE "none"
        IN  IF first = "none"
            THEN vcall.result.ok
            ELSE IsAuthError(vcall.result) /\ StepOfError(vcall.result) = first

C25_Witness ==
    /\ Validated
    /\ CarriesBearerToken(vcall.header)
    /\ vcall.header.tok.alg = jwt_algorithm
    /\ vcall.header.tok.sig = Sign(WrongKey, jwt_algorithm, vcall.header.tok.payload)
    /\ ViolatesDecode(vcall.header, vcall.at)
    /\ ViolatesTyping(vcall.header)
    /\ vcall.result = AuthError(<<"Invalid token: ", "Signature verification failed">>)

-----------------------------------------------------------------------------
(* Further properties of the middleware, checked under Spec *)

\* The context presents, as a Bearer token, a correctly signed token with exp
\* and sub and without any scope claim.
NoScopeClaim(ctx) ==
    /\ ctx.http
    /\ CarriesBearerToken(ctx.authorization)
    /\ CorrectlySigned(ctx.authorization.tok)
    /\ ctx.authorization.tok.payload.sub.has
    /\ ctx.authorization.tok.payload.exp.has
    /\ ~ctx.authorization.tok.payload.scope.has

\* C14: a correctly signed, unexpired token with sub and without the scope claim
\* validates, to a TokenInfo of its subject with no granted scope: its requests
\* are authenticated, its list requests are answered with the empty list and its
\* invocations are all denied, none reaching the next stage.
C14_AbsentScopeClaimGrantsNothing ==
    /\ \A r \in InFlightRequests :
           NoScopeClaim(r.ctx) =>
               /\ r.kind = "list"
               /\ r.token_info =
                      TokenInfo(r.ctx.authorization.tok.payload.sub.val.str, <<>>)
    /\ (/\ last.pc = "ended"
        /\ NoScopeClaim(last.ctx)
        /\ last.resumed \/ last.ctx.authorization.tok.payload.exp.val.int > now) =>
           /\ ~IsAuthError(last.outcome)
           /\ last.audit[1].decision = "authenticated"
           /\ last.audit[1].scopes = <<>>
           /\ (last.kind = "list" /\ last.next.called /\ last.next.result.ok) =>
                  last.outcome = Return(<<>>)
           /\ last.kind = "call" =>
                  /\ IsPermissionError(last.outcome)
                  /\ last.calls = 0

C14_Witness ==
    /\ EndedCall
    /\ NoScopeClaim(last.ctx)
    /\ last.tool_name = "get_public_info"
    /\ IsPermissionError(last.outcome)
    /\ \E r \in InFlightRequests :
           r.kind = "list" /\ r.ctx = last.ctx /\ r.token_info = TokenInfo("alice", <<>>)

\* Two requests ask the same thing with the same credential.
SameRequest(a, b) == a.kind = b.kind /\ a.ctx = b.ctx /\ a.tool_name = b.tool_name

\* C16: a request repeated with a credential that is still valid gets the same
\* authorization outcome, whatever requests came before and whatever requests
\* are running. A request that ends while an identical request is suspended at
\* the next stage (which was allowed) was allowed too; and the outcome is fixed by
\* the credential and the operation alone: a list request is let through, an
\* invocation is let through exactly when the credential grants the operation's
\* scope.
C16_RepeatedRequestSameOutcome ==
    (last.pc = "ended" /\ Validates(last.ctx, now)) =>
        /\ \A r \in InFlightRequests : SameRequest(r, last) => last.resumed
        /\ last.kind = "list" => last.resumed
        /\ last.kind = "call" => (last.resumed <=> Entitled(last.ctx, last.tool_name))
        /\ last.resumed => (last.calls = 1 /\ last.next.called)
        /\ ~last.resumed => (last.calls = 0 /\ IsPermissionError(last.outcome))

C16_Witness ==
    /\ EndedCall
    /\ last.resumed
    /\ Validates(last.ctx, now)
    /\ now > 0
    /\ \E r \in InFlightRequests : SameRequest(r, last) /\ r.request_id # last.request_id

\* C17: every request is authenticated on its own credential. A request holds
\* the TokenInfo of the token it presented and of no other request; and a request
\* whose credential is missing, invalid or expired when it is evaluated is
\* rejected with the authentication error, without reaching the next stage, also
\* while requests authenticated earlier, with the same credential or another,
\* are running.
C17_EachRequestAuthenticatedAlone ==
    /\ \A r \in InFlightRequests :
           /\ ValidatedBefore(r.ctx)
           /\ r.token_info.subject = r.ctx.authorization.tok.payload.sub.val.str
           /\ {r.token_info.scopes[i] : i \in DOMAIN r.token_info.scopes} =
                  ClaimedScopes(r.ctx)
    /\ (last.pc = "ended" /\ ~last.resumed /\ ~Validates(last.ctx, now)) =>
           /\ IsAuthError(last.outcome)
           /\ last.calls = 0
           /\ Len(last.audit) = 1
           /\ last.audit[1].decision = "rejected"

C17_Witness ==
    /\ last.pc = "ended"
    /\ ~last.resumed
    /\ last.outcome = AuthError(<<"Token has expired">>)
    /\ \E r \in InFlightRequests : r.ctx = last.ctx /\ r.kind = last.kind
    /\ \E r \in InFlightRequests : r.ctx # last.ctx

\* C19: every authentication failure leaves the middleware as the same error,
\* whatever its cause: the error of a request without any credential.
C19_AuthFailuresRaiseOneError ==
    (last.pc = "ended" /\ IsAuthError(last.outcome)) =>
        last.outcome = validate_token(_get_auth_header(NoHttp), now)

\* The operations of a catalog the credential of ctx is entitled to, in order.
EntitledPart(cat, ctx) == SelectSeq(cat, LAMBDA op : Entitled(ctx, op))

\* C20: the answer to a list request does not depend on the operations the
\* credential is not entitled to. Whatever catalog the next stage returned, the
\* answer is the one on_list_tools gives, for the same TokenInfo, on every catalog
\* that differs from it only in operations that are unmapped or mapped to a scope
\* the credential lacks; in particular on the catalog without any of them.
C20_ListHidesExcludedOperations ==
    (EndedList /\ last.next.called /\ last.next.result.ok) =>
        LET token_info == TokenInfo(last.audit[1].subject, last.audit[1].scopes)
            cat == last.next.result.value
        IN  \A other \in Catalogs :
                EntitledPart(other, last.ctx) = EntitledPart(cat, last.ctx) =>
                    last.outcome = Return(authorized_tools(other, token_info))

C20_Witness ==
    /\ EndedList
    /\ last.next.called
    /\ last.next.result = Return(<<"get_public_info", "unregistered_tool">>)
    /\ ClaimedScopes(last.ctx) = {"public:read"}
    /\ EntitledPart(<<"get_confidential_info", "get_public_info">>, last.ctx) =
           EntitledPart(last.next.result.value, last.ctx)
    /\ last.outcome = Return(<<"get_public_info">>)

\* C21: a request that arrives without an HTTP request context has no header
\* to present: it is rejected as a missing credential, list and invocation
\* alike, and the next stage is not called for it.
C21_NoHttpContextIsRejected ==
    /\ \A r \in InFlightRequests : r.ctx.http
    /\ (last.pc = "ended" /\ ~last.ctx.http) =>
           /\ last.outcome = AuthError(<<"Missing Authorization header">>)
           /\ ~last.resumed
           /\ last.calls = 0
           /\ ~last.next.called

C21_Witness ==
    /\ EndedCall
    /\ last.ctx = NoHttp
    /\ last.tool_name = "get_public_info"
    /\ last.outcome = AuthError(<<"Missing Authorization header">>)
    /\ last.calls = 0

-----------------------------------------------------------------------------
(* Properties of the endpoints, checked under SpecH *)

ServedProbe == last.pc = "served"

\* C22, as claimed: handling /health or /ready never calls the validator and
\* succeeds, whatever Authorization header the request carries.
C22_ProbesAlwaysSucceed ==
    /\ vcall = NoCall
    /\ ServedProbe => last.response.status_code = 200

\* C22, amended: handling /health or /ready never calls the validator, and the
\* response does not depend on the Authorization header: /health succeeds, and
\* /ready succeeds exactly when both document files exist and answers 503
\* otherwise.
C22_ProbesIgnoreCredentials ==
    /\ vcall = NoCall
    /\ (ServedProbe /\ last.route = "/health") =>
           last.response = JSONResponse("healthy", "", 200)
    /\ (ServedProbe /\ last.route = "/ready") =>
           last.response =
               IF last.documents.public /\ last.documents.confidential
               THEN JSONResponse("ready", "", 200)
               ELSE JSONResponse("not_ready", "document files missing", 503)

C22_Witness ==
    /\ ServedProbe
    /\ last.route = "/health"
    /\ last.request.authorization.present
    /\ last.request.authorization.text = BearerText
    /\ last.request.authorization.tok.sig.key = WrongKey
    /\ ~validate_token(last.request.authorization, now).ok
    /\ last.response.status_code = 200

\* The audit records of a request that report an error.
ErrorRecords(audit) == {i \in DOMAIN audit : audit[i].decision \in {"rejected", "denied"}}

\* What an audit record says, apart from the request it belongs to.
Detail(record) == [record EXCEPT !.request_id = ""]

\* C26: every authentication failure and every authorization denial has exactly
\* one audit record, and the record carries the detailed reason: for a denial,
\* no-mapping or insufficient-scope; for an authentication failure, the step that
\* failed, so that the record of a failure of a later step is not the record of a
\* missing credential.
C26_EachErrorHasOneDetailedRecord ==
    (last.pc = "ended" /\ ~last.resumed) =>
        /\ Cardinality(ErrorRecords(last.audit)) = 1
        /\ IsPermissionError(last.outcome) =>
               last.audit[Len(last.audit)].reason =
                   IF last.tool_name \in DOMAIN TOOL_SCOPE_MAP
                   THEN "insufficient_scope" ELSE "no_scope_mapping"
        /\ (IsAuthError(last.outcome) /\ StepOfError(last.outcome) # "presence") =>
               Detail(last.audit[1]) # Detail(_authenticate(NoHttp, "", now).log[1])

\* What a request that ends without reaching the next stage returns or raises,
\* going by its credential and operation alone: the validator's error, or the
\* denial of the authorization step.
DecidedWithoutNextStage(ctx, tool_name, t) ==
    LET res == validate_token(_get_auth_header(ctx), t) IN
    IF ~res.ok THEN res
    ELSE IF tool_name \notin DOMAIN TOOL_SCOPE_MAP
    THEN NoMappingDenial(tool_name, res.value, "").result
    ELSE InsufficientScopeDenial(tool_name, TOOL_SCOPE_MAP[tool_name], res.value, "").result

\* C27: emitting audit records never changes the outcome of a request, whether
\* the audit sink accepts the records or fails. With a sink that may fail at any
\* moment, a request that ends before the next stage ends with the error its
\* credential and operation decide and without calling the next stage, an
\* entitled invocation reaches the next stage and ends with that stage's result,
\* and a listing ends with the entitled part of the next stage's catalogue.
C27_AuditNeverChangesTheOutcome ==
    /\ \A r \in InFlightRequests : r.kind = "call" => Entitled(r.ctx, r.tool_name)
    /\ (last.pc = "ended" /\ ~last.resumed) =>
           /\ ~last.next.called
           /\ last.kind = "list" => ~Validates(last.ctx, now)
           /\ last.kind = "call" =>
                  (Validates(last.ctx, now) => ~Entitled(last.ctx, last.tool_name))
           /\ last.outcome = DecidedWithoutNextStage(last.ctx, last.tool_name, now)
    /\ (EndedCall /\ last.resumed) => last.outcome = last.next.result
    /\ (EndedList /\ last.resumed) =>
           last.outcome = IF last.next.result.ok
                          THEN Return(EntitledPart(last.next.result.value, last.ctx))
                          ELSE last.next.result

C27_Witness ==
    /\ ~sink
    /\ EndedCall
    /\ last.resumed
    /\ last.tool_name = "get_confidential_info"
    /\ last.outcome = Return("confidential document")
    /\ last.audit = <<>>

\* The positions of the audit records with a given decision.
RecordsWith(audit, decision) == {i \in DOMAIN audit : audit[i].decision = decision}

\* C28: the "allowed" record of an invocation is emitted before the next stage
\* starts. Every invocation suspended at the next stage has emitted "allowed", for
\* its operation and under its request id, as its latest record; an invocation
\* for which the next stage was called has the record, and one for which it was
\* not called has none.
C28_AllowedIsLoggedBeforeTheNextStage ==
    /\ \A r \in InFlightRequests :
           r.kind = "call" =>
               /\ Len(r.audit) > 0
               /\ r.audit[Len(r.audit)].decision = "allowed"
               /\ r.audit[Len(r.audit)].tool = r.tool_name
               /\ r.audit[Len(r.audit)].request_id = r.request_id
    /\ EndedCall => (last.next.called <=> RecordsWith(last.audit, "allowed") # {})

C28_Witness ==
    /\ last = NoLast
    /\ \E r \in InFlightRequests :
           /\ r.kind = "call"
           /\ r.tool_name = "get_confidential_info"
           /\ r.audit[2].decision = "allowed"
           /\ r.audit[2].required_scope = "confidential:read"

\* The audit records of one request, with request id id, are in order.
OrderedAudit(audit, id) ==
    /\ \A i \in DOMAIN audit : audit[i].request_id = id
    /\ \A i \in DOMAIN audit :
           audit[i].decision \in {"allowed", "denied", "filtered"} =>
               Cardinality({j \in 1..(i - 1) : audit[j].decision = "authenticated"}) = 1
    /\ RecordsWith(audit, "rejected") # {} =>
           \A i \in DOMAIN audit : audit[i].decision = "rejected"

\* C29: within a request, each "allowed", "denied" or "filtered" record comes
\* after exactly one "authenticated" record of the same request id, and a request
\* that emits "rejected" emits no record of another decision.
C29_AuditRecordsAreOrdered ==
    /\ \A r \in InFlightRequests : OrderedAudit(r.audit, r.request_id)
    /\ last.pc = "ended" => OrderedAudit(last.audit, last.request_id)

C29_Witness ==
    /\ EndedList
    /\ last.resumed
    /\ Len(last.audit) = 2
    /\ last.audit[1].decision = "authenticated"
    /\ last.audit[2].decision = "filtered"
    /\ last.audit[2].request_id = last.audit[1].request_id
    /\ \E r \in InFlightRequests : r.request_id = last.request_id

\* The request that just ended was cancelled while suspended at the next stage.
EndedCancelled == last.pc = "ended" /\ last.next.called /\ last.next.result = Cancelled

\* C30, as claimed: a request cancelled while it is suspended at the next stage
\* has no "filtered" and no "allowed" record in the audit stream.
C30_CancelledRequestEmitsNoDecision ==
    EndedCancelled =>
        /\ RecordsWith(last.audit, "filtered") = {}
        /\ RecordsWith(last.audit, "allowed") = {}

\* C30, amended: a request cancelled while it is suspended at the next stage
\* emits nothing after the cancellation and ends with the cancellation. A
\* cancelled list request has no "filtered" record, only "authenticated"; a
\* cancelled invocation has the "authenticated" and the "allowed" record it
\* emitted before the next stage started, and no other.
C30_CancelledRequestEmitsNothingFurther ==
    EndedCancelled =>
        /\ last.resumed
        /\ last.outcome = Cancelled
        /\ RecordsWith(last.audit, "filtered") = {}
        /\ last.kind = "list" =>
               /\ Len(last.audit) = 1
               /\ last.audit[1].decision = "authenticated"
        /\ last.kind = "call" =>
               /\ Len(last.audit) = 2
               /\ last.audit[1].decision = "authenticated"
               /\ last.audit[2].decision = "allowed"

C30_Witness ==
    /\ EndedCancelled
    /\ last.kind = "list"
    /\ last.outcome = Cancelled
    /\ Len(last.audit) = 1
    /\ \E r \in InFlightRequests : r.kind = "call" /\ r.ctx = last.ctx

\* What a request gets when it is the only request the process handles: the
\* handler run from the header and operation name of the request at time t, with
\* the next stage answering next.
RunAlone(kind, ctx, tool_name, t, next) ==
    LET auth == _authenticate(ctx, "", t) IN
    IF ~auth.result.ok THEN auth.result
    ELSE IF kind = "list"
    THEN IF next.ok THEN Return(authorized_tools(next.value, auth.result.value)) ELSE next
    ELSE LET check == check_scope(tool_name, auth.result.value, "") IN
         IF ~check.result.ok THEN check.result ELSE next

\* Run alone at time t, the request gets as far as the next stage.
ReachesNextStageAlone(kind, ctx, tool_name, t) ==
    LET auth == _authenticate(ctx, "", t) IN
    /\ auth.result.ok
    /\ kind = "call" => check_scope(tool_name, auth.result.value, "").result.ok

\* C31: under every interleaving of requests, which suspend only at the call to
\* the next stage, each request's outcome is the one it gets when run alone with
\* its own header and operation name. A suspended request holds the TokenInfo of
\* its own header; a request that ends without suspending ends as it does alone
\* at that moment; a request that ends after the next stage ends as it does
\* alone, started at an earlier moment, on the same answer of the next stage.
C31_OutcomeIsThatOfTheRequestAlone ==
    /\ \A r \in InFlightRequests :
           \E t \in 0..now :
               /\ ReachesNextStageAlone(r.kind, r.ctx, r.tool_name, t)
               /\ r.token_info = _authenticate(r.ctx, "", t).result.value
    /\ (last.pc = "ended" /\ ~last.resumed) =>
           /\ ~ReachesNextStageAlone(last.kind, last.ctx, last.tool_name, now)
           /\ last.outcome = RunAlone(last.kind, last.ctx, last.tool_name, now, NextError)
    /\ (last.pc = "ended" /\ last.resumed) =>
           \E t \in 0..now :
               /\ ReachesNextStageAlone(last.kind, last.ctx, last.tool_name, t)
               /\ last.outcome = RunAlone(last.kind, last.ctx, last.tool_name, t,
                                          last.next.result)

C31_Witness ==
    /\ EndedList
    /\ last.resumed
    /\ last.next.result = Return(<<"get_confidential_info", "get_public_info">>)
    /\ last.outcome = Return(<<"get_public_info">>)
    /\ \E r \in InFlightRequests :
           /\ r.kind = "list"
           /\ r.ctx # last.ctx
           /\ "confidential:read" \in ClaimedScopes(r.ctx)

\* The positions of the audit records of the runs of the credential validator:
\* _authenticate, the only caller of validate_token, logs one record per run,
\* "authenticated" or "rejected".
ValidatorRuns(audit) == RecordsWith(audit, "authenticated") \cup RecordsWith(audit, "rejected")

\* C32: authentication failures and authorization denials are terminal and never
\* retried. Within one request the credential validator runs exactly once and the
\* next stage is called at most once; it is not called at all when the request
\* is rejected or denied, and such a request has one record of its failure.
C32_FailuresAreTerminal ==
    /\ \A r \in InFlightRequests :
           /\ Cardinality(ValidatorRuns(r.audit)) = 1
           /\ r.calls = 1
    /\ last.pc = "ended" =>
           /\ Cardinality(ValidatorRuns(last.audit)) = 1
           /\ last.calls \in {0, 1}
           /\ last.calls = 1 <=> last.next.called
           /\ (IsAuthError(last.outcome) \/ IsPermissionError(last.outcome)) =>
                  /\ last.calls = 0
                  /\ ~last.resumed
                  /\ Cardinality(ErrorRecords(last.audit)) = 1
           /\ ErrorRecords(last.audit) # {} =>
                  (last.calls = 0 /\ ~last.outcome.ok)

C32_Witness ==
    /\ EndedCall
    /\ IsPermissionError(last.outcome)
    /\ last.calls = 0
    /\ Cardinality(ValidatorRuns(last.audit)) = 1
    /\ \E r \in InFlightRequests : r.ctx = last.ctx /\ r.calls = 1

\* C33: the request id is fresh per request. Any two distinct requests, running
\* at once or one ending while the other runs, carry different request ids, and
\* all audit records of one request carry the id of that request.
C33_RequestIdsAreFresh ==
    /\ \A r \in InFlightRequests :
           /\ Copies(req, r) = 1
           /\ \A q \in InFlightRequests : q # r => q.request_id # r.request_id
           /\ \A i \in DOMAIN r.audit : r.audit[i].request_id = r.request_id
    /\ last.pc = "ended" =>
           /\ \A r \in InFlightRequests : r.request_id # last.request_id
           /\ \A i \in DOMAIN last.audit : last.audit[i].request_id = last.request_id

\* The terminal outcomes of a request.
EndedRejected == last.pc = "ended" /\ ~last.resumed /\ IsAuthError(last.outcome)

EndedDenied == last.pc = "ended" /\ ~last.resumed /\ IsPermissionError(last.outcome)

EndedAllowedWithResult == EndedCall /\ last.resumed /\ last.outcome \in {Return(v) : v \in ToolResults}

EndedWithFilteredList == EndedList /\ last.resumed /\ last.outcome \in {Return(c) : c \in Catalogs}

TerminalOutcomes ==
    Cardinality({i \in 1..4 : <<EndedRejected, EndedDenied, EndedAllowedWithResult,
                                EndedWithFilteredList>>[i]})

\* The request that just ended was suspended and has key k.
EndedAs(k) ==
    /\ last.pc = "ended"
    /\ last.resumed
    /\ last.kind = k.kind
    /\ last.ctx = k.ctx
    /\ last.request_id = k.request_id
    /\ last.tool_name = k.tool_name

\* C34: provided the next stage returns, every request eventually ends in
\* exactly one terminal outcome: a request that ends is rejected, denied, allowed
\* with a result or answered with a filtered list, and never two of these; every
\* request suspended at the next stage ends; and after every request that ended,
\* failed or not, the process is ready again and takes a later request.
C34_EveryRequestEndsInOneOutcome ==
    /\ [](last.pc = "ended" => TerminalOutcomes = 1)
    /\ \A k \in RequestKeys : (Suspended(k) # {}) ~> EndedAs(k)
    /\ (last.pc = "ended") ~> (last = NoLast)
    /\ [](last = NoLast =>
             \A ctx \in LiveContexts :
                 ENABLED (\E id \in RequestIds : CallToolBegin(ctx, id, "unregistered_tool")))

C34_Witness ==
    /\ EndedDenied
    /\ last.tool_name = "get_confidential_info"
    /\ BagCardinality(req) = MaxReq
    /\ \E r \in InFlightRequests : r.kind = "call" /\ r.tool_name = "get_public_info"

\* C35: no list or invoke request, whatever its outcome, changes process-wide
\* state. In every state, whatever requests have ended or are suspended, the
\* scope registry and the configured secret and algorithm are the ones of the
\* process start.
C35_ProcessStateIsNeverChanged ==
    /\ tool_scope_map = TOOL_SCOPE_MAP
    /\ settings.jwt_secret_key = jwt_secret_key
    /\ settings.jwt_algorithm = jwt_algorithm

C35_Witness ==
    /\ EndedCall
    /\ last.tool_name = "unregistered_tool"
    /\ IsPermissionError(last.outcome)
    /\ \E r \in InFlightRequests : r.kind = "list"
    /\ \E r \in InFlightRequests : r.kind = "call"
    /\ DOMAIN tool_scope_map = {"get_public_info", "get_confidential_info"}

====
